---- MODULE Spec2Model ----
(***************************************************************************)
(* Gateway completion protocol client of observ-typescript.                *)
(*                                                                         *)
(* A wrapped call (AnthropicMessagesWrapper.create,                        *)
(* MistralChatCompletionsWrapper.create, VercelAIMiddleware.wrapGenerate,  *)
(* VercelAIMiddleware.wrapStream) runs on a single-threaded event loop.    *)
(* Every await of the source is a suspension point; the code between two   *)
(* suspension points is one action.  Several calls are in flight at once   *)
(* and interleave at their suspension points.                              *)
(***************************************************************************)
EXTENDS Integers, Sequences, FiniteSets, TLC

\* ------------------------------------------------------------------ bounds
\* Total number of wrapped calls started in one behaviour.
MaxCalls == 2
\* Largest token count a provider reports for input or for output.
MaxTok == 2
\* Largest number of chunks a provider stream produces before it ends.
MaxChunks == 2
\* Largest number of elements of a caller's message list.
MaxMsgs == 2
\* Largest number of chunks captured from a stream of several steps.
MaxCaptured == 3

\* The calls that can be in flight at the same time.
Reqs == {1, 2}

\* ------------------------------------------------------------------ values
Undefined == "undefined"

Kinds == {"anthropic", "mistral", "generate", "stream"}
\* The callback senders: sendCallbackAnthropic, sendCallbackOpenAI,
\* sendCallbackMistral and VercelAIMiddleware.sendCallback.
Senders == {"anthropic", "openai", "mistral", "generate"}
\* The params object the caller passes to call r.
ParamsOf(r) == <<"params", r>>
Errors == {"E1", "E2"}
TraceIds == {"t1", "t2"}

\* usage of a provider response; has = FALSE is a response without usage.
\* input/output are input_tokens/output_tokens (Anthropic), prompt_tokens/
\* completion_tokens (OpenAI, Mistral), inputTokens/outputTokens (Vercel);
\* total is total_tokens, which only the OpenAI and Mistral shapes carry.
NoUsage == [has |-> FALSE, input |-> 0, output |-> 0, total |-> 0]

UsagesOf(k) ==
  {NoUsage} \cup
  IF k \in {"mistral", "openai"}
    THEN [has : {TRUE}, input : 0..MaxTok, output : 0..MaxTok, total : 0..(2 * MaxTok)]
    ELSE [has : {TRUE}, input : 0..MaxTok, output : 0..MaxTok, total : {0}]

\* The usage of the cache-miss scenario: input 5, output 1.
ScenarioUsage(k) ==
  [has |-> TRUE, input |-> 5, output |-> 1,
   total |-> IF k \in {"mistral", "openai"} THEN 6 ELSE 0]

\* What a provider call resolves to.  null = TRUE is a resolved value that
\* is not an object (null / undefined): reading a property of it throws.
NullResponse == [null |-> TRUE, text |-> "", usage |-> NoUsage]
NoResponse == [null |-> TRUE, text |-> "none", usage |-> NoUsage]

\* The responses a provider call of a wrapped call of kind k resolves to.
ResponsesOf(k) ==
  {NullResponse} \cup
  IF k = "stream"
    THEN {[null |-> FALSE, text |-> "", usage |-> NoUsage]}
    ELSE [null : {FALSE}, text : {"42"}, usage : {NoUsage, ScenarioUsage(k)}]

\* The responses a callback sender is applied to.
SenderInputs(k) ==
  [null : {FALSE}, text : {"42"}, usage : UsagesOf(k) \cup {ScenarioUsage(k)}]

\* Bodies the gateway can deliver with a 2xx status.
BadJson == [action |-> "badjson", trace_id |-> Undefined, content |-> Undefined]
NullBody == [action |-> "null", trace_id |-> Undefined, content |-> Undefined]
NoVerdict == [action |-> "none", trace_id |-> Undefined, content |-> Undefined]

Bodies ==
  {BadJson, NullBody}
    \cup [action : {"cache_hit"}, trace_id : {"t1"}, content : {"Hi there!", Undefined}]
    \cup [action : {"proceed"}, trace_id : TraceIds \cup {Undefined}, content : {Undefined}]
    \cup [action : {"unknown"}, trace_id : {Undefined}, content : {Undefined}]

\* Chunks of a provider stream.  type "null" is a chunk that is not an object.
\* usage tells whether the chunk carries a usage object (totalUsage of a
\* finish chunk, usage of a finish-step chunk) with the two token counts.
TextDelta == [type |-> "text-delta", delta |-> "a", usage |-> FALSE, inputTokens |-> 0, outputTokens |-> 0]
FinishChunk == [type |-> "finish", delta |-> "", usage |-> TRUE, inputTokens |-> MaxTok, outputTokens |-> 1]
NullChunk == [type |-> "null", delta |-> "", usage |-> FALSE, inputTokens |-> 0, outputTokens |-> 0]
Chunks == {TextDelta, FinishChunk, NullChunk}

\* The chunks of a stream of several steps: every step ends with a
\* finish-step chunk carrying the usage of the step, the stream with a
\* finish chunk carrying the total; either can come without its usage.
StepChunks ==
  { TextDelta, FinishChunk, [FinishChunk EXCEPT !.usage = FALSE],
    [type |-> "finish-step", delta |-> "", usage |-> TRUE, inputTokens |-> 1, outputTokens |-> 0],
    [type |-> "finish-step", delta |-> "", usage |-> FALSE, inputTokens |-> 0, outputTokens |-> 0] }

NoOutcome == [type |-> "none", resp |-> NoResponse, err |-> "", text |-> ""]

\* Inputs of the cache-hit synthesis and of buildCompletionRequest.
CachedContents == {"", "Hi there!", Undefined}
Models == {"claude-sonnet-4-20250514", "mistral-small-latest"}
Providers == {"anthropic", "mistral", "openai"}
Environments == {"production", "staging"}
NoSynth == <<>>

\* The credentials of the Observ instance and the session tokens the
\* gateway hands out in the x-session-token response header.
apiKey == "sk-observ"
SessionTokens == {"jwt1", "jwt2"}
Bearer(credential) == "Bearer " \o credential

\* The wrapper classes that make cache checks on one Observ instance, by
\* the file that defines them.
SessionWrappers == {"unnamed/part_001", "unnamed/part_002"}
Wrappers ==
  {"providers/anthropic.ts", "providers/index.ts", "providers/vercel-ai.ts"}
    \cup SessionWrappers

NoAuthRequest == [Authorization |-> "none", held |-> "none"]
NoAuthResponse == [kind |-> "none", ok |-> FALSE, token |-> Undefined]

\* Per-call configuration attached with withMetadata / withSessionId.
EmptyMetadata == "{}"
MetadataOf(c) == IF c = 1 THEN "m1" ELSE "m2"
SessionIdOf(c) == IF c = 1 THEN "s1" ELSE "s2"
MessagesOf(c) == <<"messages", c>>

Features == [trace : BOOLEAN, recall : BOOLEAN, resilience : BOOLEAN, adapt : BOOLEAN]

NoRequest ==
  [provider |-> "none", model |-> "none", messages |-> <<>>,
   features |-> [trace |-> FALSE, recall |-> FALSE, resilience |-> FALSE, adapt |-> FALSE],
   environment |-> "none", metadata |-> "none", external_session_id |-> "none"]

\* JavaScript values of the message lists. t is the type of the value
\* ("absent": the key is not in the object), v its text (the string itself,
\* the JSON text of an object), parts the elements of an array of content
\* parts.
Absent == [t |-> "absent", v |-> "", parts |-> <<>>]
Str(s) == [t |-> "string", v |-> s, parts |-> <<>>]
Obj(json) == [t |-> "object", v |-> json, parts |-> <<>>]
Arr(parts) == [t |-> "array", v |-> "", parts |-> parts]

\* A content part of a Vercel AI SDK message: a text part, a tool-call part
\* with its args, a tool-result part with its result; a null part has type
\* "null".
Part(type, text, args, result) ==
  [type |-> type, text |-> text, args |-> args, result |-> result,
   toolCallId |-> IF type \in {"tool-call", "tool-result"} THEN "call_1" ELSE "",
   toolName |-> IF type \in {"tool-call", "tool-result"} THEN "lookup" ELSE ""]

\* A tool call: the gateway's form (id, type, function.name,
\* function.arguments) and the Vercel AI SDK's (toolCallId, toolName, args).
ToolCall(id, name, arguments, toolCallId, toolName, args) ==
  [id |-> id, type |-> IF id # "" THEN "function" ELSE "", name |-> name,
   arguments |-> arguments, toolCallId |-> toolCallId, toolName |-> toolName, args |-> args]

\* An element of a message list. t is "object" for a message object, "null"
\* for null and "number" for a primitive. tool_calls and toolCalls are the
\* arrays under these keys, empty when the key is absent.
EmptyMsg ==
  [t |-> "object", role |-> Absent, content |-> Absent, text |-> Absent,
   tool_calls |-> <<>>, toolCalls |-> <<>>,
   tool_call_id |-> Absent, toolCallId |-> Absent,
   name |-> Absent, toolName |-> Absent, result |-> Absent]
Msg(role, content) == [EmptyMsg EXCEPT !.role = Str(role), !.content = content]

\* Messages already in the gateway's form.
CanonicalMsgs ==
  { Msg("user", Str("hi")),
    Msg("assistant", Str("")),
    [Msg("assistant", Str("")) EXCEPT
       !.tool_calls = <<ToolCall("call_1", "lookup", Str("{\"q\":1}"), "", "", Absent)>>],
    [Msg("tool", Str("42")) EXCEPT !.tool_call_id = Str("call_1"), !.name = Str("lookup")] }

\* The canonical messages, messages in the providers' and in the Vercel AI
\* SDK's forms, and elements that are no messages.
Elements ==
  CanonicalMsgs \cup
  { [Msg("assistant", Str("")) EXCEPT
       !.tool_calls = <<ToolCall("call_1", "lookup", Obj("{\"q\":1}"), "", "", Absent)>>],
    [Msg("user", Str("hi")) EXCEPT !.tool_call_id = Str("call_1"), !.toolCallId = Str("call_1")],
    [EmptyMsg EXCEPT !.role = Str("user")],
    [EmptyMsg EXCEPT !.text = Str("yo")],
    Msg("assistant", Arr(<<Part("text", "hi", Absent, Absent),
                           Part("tool-call", "", Obj("{\"q\":1}"), Absent)>>)),
    Msg("tool", Arr(<<Part("tool-result", "", Absent, Str("42"))>>)),
    [Msg("user", Str("hi")) EXCEPT
       !.toolCalls = <<ToolCall("", "", Absent, "call_1", "lookup", Obj("{\"q\":1}"))>>],
    Msg("user", Arr(<<Part("null", "", Absent, Absent)>>)),
    [EmptyMsg EXCEPT !.t = "null"],
    [EmptyMsg EXCEPT !.t = "number"] }

\* The message lists of up to n elements.
Lists(S, n) == UNION { [1..k -> S] : k \in 0..n }

\* params.messages of a provider wrapper, params.prompt of the AI SDK
\* middleware: a string, null, undefined, a number, an array of elements, or
\* an object. messages is the messages key of an object prompt: "absent",
\* "array" (its elements are list) or "string".
Prompt(t, v, messages, list) == [t |-> t, v |-> v, messages |-> messages, list |-> list]
NoPrompt == Prompt("undefined", "", "absent", <<>>)
Prompts ==
  { Prompt("array", "", "absent", l) : l \in Lists(Elements, MaxMsgs) }
    \cup { Prompt("object", "{}", "array", l) : l \in Lists(Elements, MaxMsgs) }
    \cup { Prompt("object", "{}", "absent", <<>>), Prompt("object", "{}", "string", <<>>),
           Prompt("string", "", "absent", <<>>), Prompt("string", "hi", "absent", <<>>),
           Prompt("null", "", "absent", <<>>), NoPrompt,
           Prompt("number", "7", "absent", <<>>) }

\* The functions a wrapper normalizes the caller's messages with.
Normalizers == {"convertMessagesToGatewayFormat", "VercelMessageConverter", "VercelMessageConverter/part_000"}

\* What a normalizer gives: the message list it returns, or it threw.
Returned(list) == [threw |-> FALSE, list |-> list]
Threw == [threw |-> TRUE, list |-> <<>>]

\* providerOptions.observ of an AI SDK call: absent, or an object with
\* metadata and, optionally, sessionId.
NoConfig == [has |-> FALSE, metadata |-> Undefined, sessionId |-> Undefined]
ObservConfigs(c) ==
  { NoConfig,
    [has |-> TRUE, metadata |-> MetadataOf(c), sessionId |-> SessionIdOf(c)],
    [has |-> TRUE, metadata |-> MetadataOf(c), sessionId |-> Undefined] }

\* The params object the AI SDK makes for a call, with the two properties
\* transformParams attaches to it. at is how far the call has come.
NoParams == [at |-> "none", _observMetadata |-> Undefined, _observSessionId |-> Undefined]

\* ------------------------------------------------------------------ state
VARIABLES
  pc,           \* position of each wrapped call
  kind,         \* which wrapper the call goes through
  started,      \* number of wrapped calls started so far
  gwResult,     \* how the gateway check of the call ended
  verdict,      \* gatewayResponse: the parsed body of the gateway response
  traceId,      \* the local const traceId of the call
  provCalls,    \* the real provider calls made for the call, in order
  outcome,      \* what the caller's promise settled to
  cbs,          \* the callback POSTs issued for the call, in order
  provStream,   \* state of the provider's stream (streaming cache miss)
  callerStream, \* state of the stream the caller reads
  captured,     \* chunks[] of createCaptureStream
  delivered,    \* chunks enqueued to the caller
  tkSender,     \* a callback sender
  tkResp,       \* the provider response it is applied to
  tkOut,        \* the callback it builds
  flWrapper,    \* the fluent wrapper two callers share
  _metadata,    \* its field _metadata
  _sessionId,   \* its field _sessionId
  flDone,       \* the steps of its call each caller has made
  flRequest,    \* the completionRequest built by each caller's create
  flCreated,    \* number of create calls made on the wrapper
  optionsRecall, \* options.recall as given to the Observ constructor
  jwtToken,     \* Observ.jwtToken: the rotated session token
  auPc,         \* position of each cache check sharing the Observ instance
  auWrapper,    \* the wrapper class that makes the cache check
  auRequest,    \* the cache-check request as sent
  auResponse,   \* how the gateway answered it
  auStored,     \* Observ.jwtToken once the answer has been handled
  auSent,       \* number of cache-check requests sent
  synStage,     \* "input": a cache_hit verdict is at hand; "built": synthesized
  synKind,      \* the wrapper that synthesizes the response
  synContent,   \* gatewayResponse.content
  synModel,     \* the model of the call
  synOut,       \* the synthesized response
  simQueue,     \* chunks queued in the simulated stream, not read yet
  simClosed,    \* controller.close() was called on the simulated stream
  simRead,      \* chunks the caller has read from the simulated stream
  simDone,      \* the caller's read has reported the end of the stream
  crRequest,    \* the last CompletionRequest built
  nzFn,         \* the normalizer a wrapped call applies to its messages
  nzPrompt,     \* the caller's messages (params.messages, params.prompt)
  nzStage,      \* "input", "normalized" or "again"
  nzOut,        \* what the normalizer gave: a message list, or it threw
  nzAgain,      \* what it gives when applied to its own output
  nzCaller,     \* where the wrapped call is after the normalization
  xtChunks,     \* chunks[] of a capture stream over a stream of several steps
  xtTokens,     \* tokensUsed as flush computes it, -1 before flush
  vcConfig,     \* providerOptions.observ of each caller's AI SDK call
  vcParams,     \* the params object of each caller's AI SDK call
  vcRequest,    \* the completionRequest built by wrapGenerate for the call
  vcCalls       \* number of AI SDK calls started on the wrapped model

vars == <<pc, kind, started, gwResult, verdict, traceId, provCalls,
          outcome, cbs, provStream, callerStream, captured, delivered,
          tkSender, tkResp, tkOut,
          flWrapper, _metadata, _sessionId, flDone, flRequest, flCreated,
          optionsRecall,
          jwtToken, auPc, auWrapper, auRequest, auResponse, auStored, auSent,
          synStage, synKind, synContent, synModel, synOut,
          simQueue, simClosed, simRead, simDone, crRequest,
          nzFn, nzPrompt, nzStage, nzOut, nzAgain, nzCaller,
          xtChunks, xtTokens,
          vcConfig, vcParams, vcRequest, vcCalls>>

protoVars == <<pc, kind, started, gwResult, verdict, traceId, provCalls,
               outcome, cbs, provStream, callerStream, captured, delivered>>

tkVars == <<tkSender, tkResp, tkOut>>

flVars == <<flWrapper, _metadata, _sessionId, flDone, flRequest, flCreated,
            optionsRecall>>

auVars == <<jwtToken, auPc, auWrapper, auRequest, auResponse, auStored, auSent>>

synVars == <<synStage, synKind, synContent, synModel, synOut>>

simVars == <<simQueue, simClosed, simRead, simDone>>

bldVars == <<synVars, simVars, crRequest>>

nzVars == <<nzFn, nzPrompt, nzStage, nzOut, nzAgain, nzCaller>>

xtVars == <<xtChunks, xtTokens>>

vcVars == <<vcConfig, vcParams, vcRequest, vcCalls>>

\* The state the gateway protocol of a wrapped call leaves alone.
auxVars == <<tkVars, flVars, auVars, bldVars, nzVars, xtVars, vcVars>>

\* The state the callback senders, the fluent with-calls and the session
\* token handling leave alone.
sendersRest == <<protoVars, flVars, auVars, bldVars, nzVars, xtVars, vcVars>>
fluentRest == <<protoVars, tkVars, auVars, bldVars, nzVars, xtVars, vcVars>>
authRest == <<protoVars, tkVars, flVars, bldVars, nzVars, xtVars, vcVars>>
buildersRest == <<protoVars, tkVars, flVars, auVars, nzVars, xtVars, vcVars>>
normalizeRest == <<protoVars, tkVars, flVars, auVars, bldVars, xtVars, vcVars>>
captureRest == <<protoVars, tkVars, flVars, auVars, bldVars, nzVars, vcVars>>
vercelRest == <<protoVars, tkVars, flVars, auVars, bldVars, nzVars, xtVars>>

streamVars == <<provStream, callerStream, captured, delivered>>

NoCallback == [trace_id |-> "none", content |-> "", tokens_used |-> 0, status |-> "none"]

ProtoInit ==
  /\ pc = [r \in Reqs |-> "idle"]
  /\ kind = [r \in Reqs |-> "anthropic"]
  /\ started = 0
  /\ gwResult = [r \in Reqs |-> "none"]
  /\ verdict = [r \in Reqs |-> NoVerdict]
  /\ traceId = [r \in Reqs |-> "none"]
  /\ provCalls = [r \in Reqs |-> <<>>]
  /\ outcome = [r \in Reqs |-> NoOutcome]
  /\ cbs = [r \in Reqs |-> <<>>]
  /\ provStream = [r \in Reqs |-> "none"]
  /\ callerStream = [r \in Reqs |-> "none"]
  /\ captured = [r \in Reqs |-> <<>>]
  /\ delivered = [r \in Reqs |-> <<>>]

\* No callback sender has been applied.
SendersIdle ==
  /\ tkSender = "anthropic"
  /\ tkResp = NoResponse
  /\ tkOut = NoCallback

\* The wrapper object as constructed: _metadata = {}, _sessionId undefined.
FluentIdle ==
  /\ flWrapper = "anthropic"
  /\ _metadata = EmptyMetadata
  /\ _sessionId = Undefined
  /\ flDone = [c \in Reqs |-> {}]
  /\ flRequest = [c \in Reqs |-> NoRequest]
  /\ flCreated = 0
  /\ optionsRecall = Undefined

\* The Observ instance as constructed (no session token) and no cache
\* check made.
AuthIdle ==
  /\ jwtToken = Undefined
  /\ auPc = [r \in Reqs |-> "idle"]
  /\ auWrapper = [r \in Reqs |-> "none"]
  /\ auRequest = [r \in Reqs |-> NoAuthRequest]
  /\ auResponse = [r \in Reqs |-> NoAuthResponse]
  /\ auStored = [r \in Reqs |-> "none"]
  /\ auSent = 0

\* Nothing synthesized, no request built.
BuildersIdle ==
  /\ synStage = "input"
  /\ synKind = "anthropic"
  /\ synContent = Undefined
  /\ synModel = "none"
  /\ synOut = NoSynth
  /\ simQueue = <<>>
  /\ simClosed = FALSE
  /\ simRead = <<>>
  /\ simDone = FALSE
  /\ crRequest = NoRequest

\* No message list has been normalized.
NormalizeIdle ==
  /\ nzFn = "convertMessagesToGatewayFormat"
  /\ nzPrompt = NoPrompt
  /\ nzStage = "input"
  /\ nzOut = Returned(<<>>)
  /\ nzAgain = Returned(<<>>)
  /\ nzCaller = "idle"

\* The wrapped model with no AI SDK call made on it.
VercelIdle ==
  /\ vcConfig = [c \in Reqs |-> NoConfig]
  /\ vcParams = [c \in Reqs |-> NoParams]
  /\ vcRequest = [c \in Reqs |-> NoRequest]
  /\ vcCalls = 0

\* A capture stream as created: nothing captured, flush has not run.
CaptureIdle ==
  /\ xtChunks = <<>>
  /\ xtTokens = -1

Init ==
  /\ ProtoInit
  /\ SendersIdle
  /\ FluentIdle
  /\ AuthIdle
  /\ BuildersIdle
  /\ NormalizeIdle
  /\ CaptureIdle
  /\ VercelIdle

\* ------------------------------------------------------------------ helpers
\* A real provider call: _originalCreate(params) / doGenerate() / doStream().
NewCall(p) == [params |-> p, state |-> "pending", resp |-> NoResponse, err |-> ""]

Invoke(calls, p) == Append(calls, NewCall(p))

Resolve(calls, resp) ==
  [calls EXCEPT ![Len(calls)] = [@ EXCEPT !.state = "ok", !.resp = resp]]

Reject(calls, e) ==
  [calls EXCEPT ![Len(calls)] = [@ EXCEPT !.state = "err", !.err = e]]

\* buildCompletionRequest
buildCompletionRequest_recallAsResilience(provider, model, gatewayMessages, recall, environment, metadata, sessionId) ==
  [provider |-> provider, model |-> model, messages |-> gatewayMessages,
   features |-> [trace |-> TRUE, recall |-> recall, resilience |-> recall, adapt |-> FALSE],
   environment |-> environment, metadata |-> metadata,
   external_session_id |-> sessionId]

buildCompletionRequest(provider, model, gatewayMessages, recall, environment, metadata, sessionId) ==
  [provider |-> provider, model |-> model, messages |-> gatewayMessages,
   features |-> [trace |-> TRUE, recall |-> recall, resilience |-> FALSE, adapt |-> FALSE],
   environment |-> environment, metadata |-> metadata,
   external_session_id |-> sessionId]

\* tokens_used as each callback sender computes it.
TokensAnthropic_outputOnly(resp) ==
  IF resp.usage.has THEN resp.usage.output ELSE 0

TokensAnthropic(resp) ==
  IF resp.usage.has THEN resp.usage.input + resp.usage.output ELSE 0

TokensOpenAI(resp) ==
  IF resp.usage.has THEN resp.usage.total ELSE 0

TokensMistral(resp) ==
  IF resp.usage.has THEN resp.usage.total ELSE 0

TokensVercel(resp) ==
  (IF resp.usage.has THEN resp.usage.input ELSE 0)
    + (IF resp.usage.has THEN resp.usage.output ELSE 0)

TokensUsed(k, resp) ==
  CASE k = "anthropic" -> TokensAnthropic(resp)
    [] k = "openai" -> TokensOpenAI(resp)
    [] k = "mistral" -> TokensMistral(resp)
    [] OTHER -> TokensVercel(resp)

\* The CompletionCallback a sender builds from a provider response.
CallbackOf(k, t, resp) ==
  [trace_id |-> t, content |-> resp.text,
   tokens_used |-> TokensUsed(k, resp), status |-> "pending"]

\* The trace id a callback of call r is keyed by: the local const traceId.
CallbackTraceId_other(r) == traceId[CHOOSE q \in Reqs : q # r]

CallbackTraceId(r) == traceId[r]

\* The parameters the fallback provider call is made with.
FallbackParams_modified(r) == <<"modified", r>>

FallbackParams(r) == ParamsOf(r)

\* sendCallbackAnthropic / sendCallbackMistral / sendCallback: the callback
\* POSTs of call r after the sender ran on resp.  Reading a property of a
\* response that is not an object throws before the POST is issued; the
\* exception is swallowed (try/catch, or .catch on the returned promise).
SendCallback(r, resp) ==
  IF resp.null
    THEN cbs[r]
    ELSE Append(cbs[r], CallbackOf(kind[r], CallbackTraceId(r), resp))

\* The response synthesized on a cache hit, as the caller sees it.
Synthesized(k, v) ==
  [type |-> IF k = "stream" THEN "synth_stream" ELSE "synth",
   resp |-> NoResponse, err |-> "",
   text |-> IF k \in {"anthropic", "mistral"} /\ v.content = Undefined
              THEN "" ELSE v.content]

\* extractContentFromChunks
RECURSIVE extractContentFromChunks(_)
extractContentFromChunks(chunks) ==
  IF chunks = <<>> THEN ""
  ELSE (IF Head(chunks).type = "text-delta" /\ Head(chunks).delta # ""
          THEN Head(chunks).delta ELSE "")
       \o extractContentFromChunks(Tail(chunks))

\* extractTokensFromChunks
RECURSIVE extractTokensFromChunks(_)
extractTokensFromChunks(chunks) ==
  IF chunks = <<>> THEN 0
  ELSE IF Head(chunks).type \in {"finish", "finish-step"} /\ Head(chunks).usage
    THEN Head(chunks).inputTokens + Head(chunks).outputTokens
    ELSE extractTokensFromChunks(Tail(chunks))

\* Both extractors read chunk.type of every captured chunk (up to the first
\* return): a chunk that is not an object makes the read throw a TypeError.
ExtractThrows(chunks) == \E i \in 1..Len(chunks) : chunks[i].type = "null"

\* flush of the capture stream: the callbacks of call r afterwards.
FlushCallbacks(r) ==
  IF ExtractThrows(captured[r])
    THEN cbs[r]
    ELSE Append(cbs[r], [trace_id |-> CallbackTraceId(r),
                         content |-> extractContentFromChunks(captured[r]),
                         tokens_used |-> extractTokensFromChunks(captured[r]),
                         status |-> "pending"])

\* flush of the capture stream: the state of the stream the caller reads.
\* An exception thrown by flush errors the readable side of the transform.
FlushCallerStream(r) ==
  IF ExtractThrows(captured[r]) THEN "errored" ELSE "closed"

\* ------------------------------------------------------------------ actions
\* create(params) / wrapGenerate / wrapStream up to the first await: the
\* request envelope is built and the gateway fetch is issued.
Start(r, k) ==
  /\ pc[r] = "idle"
  /\ started < MaxCalls
  /\ started' = started + 1
  /\ kind' = [kind EXCEPT ![r] = k]
  /\ pc' = [pc EXCEPT ![r] = "gw_fetch"]
  /\ UNCHANGED <<gwResult, verdict, traceId, provCalls, outcome, cbs, streamVars, auxVars>>

\* The catch block of the wrapped call: the direct provider call is issued.
Fallback(r, calls) ==
  /\ provCalls' = [provCalls EXCEPT ![r] = Invoke(calls, FallbackParams(r))]
  /\ pc' = [pc EXCEPT ![r] = "fb_call"]

\* The 10 s timer aborts the fetch: AbortError, rethrown as a gateway
\* timeout error, caught by the outer catch.
GatewayTimeout(r) ==
  /\ pc[r] = "gw_fetch"
  /\ gwResult' = [gwResult EXCEPT ![r] = "timeout"]
  /\ Fallback(r, provCalls[r])
  /\ UNCHANGED <<kind, started, verdict, traceId, outcome, cbs, streamVars, auxVars>>

\* The fetch rejects for any other reason (connection refused, DNS, ...).
GatewayConnError(r) ==
  /\ pc[r] = "gw_fetch"
  /\ gwResult' = [gwResult EXCEPT ![r] = "conn"]
  /\ Fallback(r, provCalls[r])
  /\ UNCHANGED <<kind, started, verdict, traceId, outcome, cbs, streamVars, auxVars>>

\* The fetch resolves with the response's status line and headers; the
\* timer is cleared.  The body is read next: response.text() when the
\* status is not 2xx, response.json() otherwise.
GatewayResponds_speculative(r, ok) ==
  /\ pc[r] = "gw_fetch"
  /\ pc' = [pc EXCEPT ![r] = IF ok THEN "gw_json" ELSE "gw_text"]
  /\ provCalls' = [provCalls EXCEPT ![r] = Invoke(@, ParamsOf(r))]
  /\ UNCHANGED <<kind, started, gwResult, verdict, traceId, outcome, cbs, streamVars, auxVars>>

GatewayResponds(r, ok) ==
  /\ pc[r] = "gw_fetch"
  /\ pc' = [pc EXCEPT ![r] = IF ok THEN "gw_json" ELSE "gw_text"]
  /\ UNCHANGED <<kind, started, gwResult, verdict, traceId, provCalls,
                 outcome, cbs, streamVars, auxVars>>

\* response.text() of a non-2xx response settles; "Gateway error <status>"
\* is thrown and caught by the outer catch.
GatewayHttpError(r) ==
  /\ pc[r] = "gw_text"
  /\ gwResult' = [gwResult EXCEPT ![r] = "http"]
  /\ Fallback(r, provCalls[r])
  /\ UNCHANGED <<kind, started, verdict, traceId, outcome, cbs, streamVars, auxVars>>

\* response.json() rejects (the body is not JSON), or resolves with null
\* so that reading gatewayResponse.action throws.
GatewayBadBody(r, b) ==
  /\ pc[r] = "gw_json"
  /\ b \in {BadJson, NullBody}
  /\ gwResult' = [gwResult EXCEPT ![r] = IF b = BadJson THEN "badjson" ELSE "nullbody"]
  /\ Fallback(r, provCalls[r])
  /\ UNCHANGED <<kind, started, verdict, traceId, outcome, cbs, streamVars, auxVars>>

\* response.json() resolves with action = "cache_hit": the response is
\* synthesized and returned.
GatewayCacheHit_callsProvider(r, b) ==
  /\ pc[r] = "gw_json"
  /\ b \in Bodies
  /\ b.action = "cache_hit"
  /\ gwResult' = [gwResult EXCEPT ![r] = "verdict"]
  /\ verdict' = [verdict EXCEPT ![r] = b]
  /\ provCalls' = [provCalls EXCEPT ![r] = Invoke(@, ParamsOf(r))]
  /\ pc' = [pc EXCEPT ![r] = "fb_call"]
  /\ UNCHANGED <<kind, started, traceId, outcome, cbs, streamVars, auxVars>>

GatewayCacheHit(r, b) ==
  /\ pc[r] = "gw_json"
  /\ b \in Bodies
  /\ b.action = "cache_hit"
  /\ gwResult' = [gwResult EXCEPT ![r] = "verdict"]
  /\ verdict' = [verdict EXCEPT ![r] = b]
  /\ outcome' = [outcome EXCEPT ![r] = Synthesized(kind[r], b)]
  /\ pc' = [pc EXCEPT ![r] = "done"]
  /\ UNCHANGED <<kind, started, traceId, provCalls, cbs, streamVars, auxVars>>

\* response.json() resolves with any other object: traceId is taken from
\* it and the real provider call is issued.
GatewayProceed_callbackFirst(r, b) ==
  /\ pc[r] = "gw_json"
  /\ b \in Bodies
  /\ b.action \notin {"cache_hit", "badjson", "null"}
  /\ gwResult' = [gwResult EXCEPT ![r] = "verdict"]
  /\ verdict' = [verdict EXCEPT ![r] = b]
  /\ traceId' = [traceId EXCEPT ![r] = b.trace_id]
  /\ provCalls' = [provCalls EXCEPT ![r] = Invoke(@, ParamsOf(r))]
  /\ cbs' = [cbs EXCEPT ![r] = Append(@, [trace_id |-> b.trace_id, content |-> "",
                                          tokens_used |-> 0, status |-> "pending"])]
  /\ pc' = [pc EXCEPT ![r] = "prov_call"]
  /\ UNCHANGED <<kind, started, outcome, streamVars, auxVars>>

GatewayProceed(r, b) ==
  /\ pc[r] = "gw_json"
  /\ b \in Bodies
  /\ b.action \notin {"cache_hit", "badjson", "null"}
  /\ gwResult' = [gwResult EXCEPT ![r] = "verdict"]
  /\ verdict' = [verdict EXCEPT ![r] = b]
  /\ traceId' = [traceId EXCEPT ![r] = b.trace_id]
  /\ provCalls' = [provCalls EXCEPT ![r] = Invoke(@, ParamsOf(r))]
  /\ pc' = [pc EXCEPT ![r] = "prov_call"]
  /\ UNCHANGED <<kind, started, outcome, cbs, streamVars, auxVars>>

\* The provider call made after a proceed verdict resolves (create,
\* wrapGenerate): the callback is fired without being awaited and the
\* provider's response is returned.
ProviderReturns_awaitsCallback(r, resp) ==
  /\ pc[r] = "prov_call"
  /\ kind[r] # "stream"
  /\ resp \in ResponsesOf(kind[r])
  /\ provCalls' = [provCalls EXCEPT ![r] = Resolve(@, resp)]
  /\ cbs' = [cbs EXCEPT ![r] = SendCallback(r, resp)]
  /\ pc' = [pc EXCEPT ![r] = "cb_wait"]
  /\ UNCHANGED <<kind, started, gwResult, verdict, traceId, outcome, streamVars, auxVars>>

ProviderReturns(r, resp) ==
  /\ pc[r] = "prov_call"
  /\ kind[r] # "stream"
  /\ resp \in ResponsesOf(kind[r])
  /\ provCalls' = [provCalls EXCEPT ![r] = Resolve(@, resp)]
  /\ cbs' = [cbs EXCEPT ![r] = SendCallback(r, resp)]
  /\ outcome' = [outcome EXCEPT ![r] = [type |-> "value", resp |-> resp, err |-> "", text |-> ""]]
  /\ pc' = [pc EXCEPT ![r] = "done"]
  /\ UNCHANGED <<kind, started, gwResult, verdict, traceId, streamVars, auxVars>>

\* doStream() made after a proceed verdict resolves (wrapStream): the
\* provider's stream is piped through the capture transform and returned.
\* Reading result.stream of a result that is not an object throws inside
\* the try block.
ProviderStreams(r, resp) ==
  /\ pc[r] = "prov_call"
  /\ kind[r] = "stream"
  /\ resp \in ResponsesOf(kind[r])
  /\ IF resp.null
       THEN /\ Fallback(r, Resolve(provCalls[r], resp))
            /\ UNCHANGED <<outcome, streamVars>>
       ELSE /\ provCalls' = [provCalls EXCEPT ![r] = Resolve(@, resp)]
            /\ outcome' = [outcome EXCEPT ![r] = [type |-> "stream", resp |-> resp, err |-> "", text |-> ""]]
            /\ provStream' = [provStream EXCEPT ![r] = "open"]
            /\ callerStream' = [callerStream EXCEPT ![r] = "open"]
            /\ pc' = [pc EXCEPT ![r] = "streaming"]
            /\ UNCHANGED <<captured, delivered>>
  /\ UNCHANGED <<kind, started, gwResult, verdict, traceId, cbs, auxVars>>

\* The provider call made after a proceed verdict rejects with e: the await
\* is inside the try block, so the outer catch runs.
ProviderRaises(r, e) ==
  /\ pc[r] = "prov_call"
  /\ e \in Errors
  /\ Fallback(r, Reject(provCalls[r], e))
  /\ UNCHANGED <<kind, started, gwResult, verdict, traceId, outcome, cbs, streamVars, auxVars>>

\* The provider call made by the catch block resolves: its value is returned.
FallbackReturns_withCallback(r, resp) ==
  /\ pc[r] = "fb_call"
  /\ resp \in ResponsesOf(kind[r])
  /\ provCalls' = [provCalls EXCEPT ![r] = Resolve(@, resp)]
  /\ cbs' = [cbs EXCEPT ![r] = SendCallback(r, resp)]
  /\ outcome' = [outcome EXCEPT ![r] = [type |-> "value", resp |-> resp, err |-> "", text |-> ""]]
  /\ pc' = [pc EXCEPT ![r] = "done"]
  /\ UNCHANGED <<kind, started, gwResult, verdict, traceId, streamVars, auxVars>>

FallbackReturns(r, resp) ==
  /\ pc[r] = "fb_call"
  /\ resp \in ResponsesOf(kind[r])
  /\ provCalls' = [provCalls EXCEPT ![r] = Resolve(@, resp)]
  /\ outcome' = [outcome EXCEPT ![r] = [type |-> "value", resp |-> resp, err |-> "", text |-> ""]]
  /\ pc' = [pc EXCEPT ![r] = "done"]
  /\ UNCHANGED <<kind, started, gwResult, verdict, traceId, cbs, streamVars, auxVars>>

\* The provider call made by the catch block rejects: the caller sees e.
FallbackRaises(r, e) ==
  /\ pc[r] = "fb_call"
  /\ e \in Errors
  /\ provCalls' = [provCalls EXCEPT ![r] = Reject(@, e)]
  /\ outcome' = [outcome EXCEPT ![r] = [type |-> "error", resp |-> NoResponse, err |-> e, text |-> ""]]
  /\ pc' = [pc EXCEPT ![r] = "done"]
  /\ UNCHANGED <<kind, started, gwResult, verdict, traceId, cbs, streamVars, auxVars>>

\* transform of the capture stream: the chunk is pushed to chunks[] and
\* enqueued unchanged.
StreamChunk_callbackPerChunk(r, c) ==
  /\ pc[r] = "streaming"
  /\ provStream[r] = "open"
  /\ Len(captured[r]) < MaxChunks
  /\ c \in Chunks
  /\ captured' = [captured EXCEPT ![r] = Append(@, c)]
  /\ delivered' = [delivered EXCEPT ![r] = Append(@, c)]
  /\ cbs' = [cbs EXCEPT ![r] = Append(@, [trace_id |-> CallbackTraceId(r),
                                          content |-> c.delta, tokens_used |-> 0,
                                          status |-> "pending"])]
  /\ UNCHANGED <<pc, kind, started, gwResult, verdict, traceId, provCalls,
                 outcome, provStream, callerStream, auxVars>>

StreamChunk(r, c) ==
  /\ pc[r] = "streaming"
  /\ provStream[r] = "open"
  /\ Len(captured[r]) < MaxChunks
  /\ c \in Chunks
  /\ captured' = [captured EXCEPT ![r] = Append(@, c)]
  /\ delivered' = [delivered EXCEPT ![r] = Append(@, c)]
  /\ UNCHANGED <<pc, kind, started, gwResult, verdict, traceId, provCalls,
                 outcome, cbs, provStream, callerStream, auxVars>>

\* The provider's stream closes: flush runs.
StreamClose(r) ==
  /\ pc[r] = "streaming"
  /\ provStream[r] = "open"
  /\ provStream' = [provStream EXCEPT ![r] = "closed"]
  /\ cbs' = [cbs EXCEPT ![r] = FlushCallbacks(r)]
  /\ callerStream' = [callerStream EXCEPT ![r] = FlushCallerStream(r)]
  /\ pc' = [pc EXCEPT ![r] = "done"]
  /\ UNCHANGED <<kind, started, gwResult, verdict, traceId, provCalls,
                 outcome, captured, delivered, auxVars>>

\* The provider's stream errors: the pipe errors the caller's stream and
\* flush never runs.
StreamError(r) ==
  /\ pc[r] = "streaming"
  /\ provStream[r] = "open"
  /\ provStream' = [provStream EXCEPT ![r] = "errored"]
  /\ callerStream' = [callerStream EXCEPT ![r] = "errored"]
  /\ pc' = [pc EXCEPT ![r] = "done"]
  /\ UNCHANGED <<kind, started, gwResult, verdict, traceId, provCalls,
                 outcome, cbs, captured, delivered, auxVars>>

\* The caller cancels the stream it reads before the provider's stream has
\* ended (or stops reading and drops it): the pipe cancels the provider's
\* stream, the writable side of the transform is errored and flush never
\* runs (the transformer has no cancel callback).
\* A transform that reports what it captured when the caller cancels.
CallerCancels_flushes(r) ==
  /\ pc[r] = "streaming"
  /\ provStream[r] = "open"
  /\ provStream' = [provStream EXCEPT ![r] = "cancelled"]
  /\ callerStream' = [callerStream EXCEPT ![r] = "cancelled"]
  /\ cbs' = [cbs EXCEPT ![r] = FlushCallbacks(r)]
  /\ pc' = [pc EXCEPT ![r] = "done"]
  /\ UNCHANGED <<kind, started, gwResult, verdict, traceId, provCalls,
                 outcome, captured, delivered, auxVars>>

CallerCancels(r) ==
  /\ pc[r] = "streaming"
  /\ provStream[r] = "open"
  /\ provStream' = [provStream EXCEPT ![r] = "cancelled"]
  /\ callerStream' = [callerStream EXCEPT ![r] = "cancelled"]
  /\ pc' = [pc EXCEPT ![r] = "done"]
  /\ UNCHANGED <<kind, started, gwResult, verdict, traceId, provCalls,
                 outcome, cbs, captured, delivered, auxVars>>

\* The callback POST is answered (whatever the status: it is not read).
CallbackAnswered(r) ==
  /\ cbs[r] # <<>>
  /\ cbs[r][Len(cbs[r])].status = "pending"
  /\ cbs' = [cbs EXCEPT ![r][Len(cbs[r])].status = "answered"]
  /\ UNCHANGED <<pc, kind, started, gwResult, verdict, traceId, provCalls,
                 outcome, streamVars, auxVars>>

\* The callback POST rejects (network error, or the 5 s timer aborts it):
\* the rejection is swallowed by .catch.
CallbackFails(r) ==
  /\ cbs[r] # <<>>
  /\ cbs[r][Len(cbs[r])].status = "pending"
  /\ cbs' = [cbs EXCEPT ![r][Len(cbs[r])].status = "failed"]
  /\ UNCHANGED <<pc, kind, started, gwResult, verdict, traceId, provCalls,
                 outcome, streamVars, auxVars>>

\* The caller is finished with a settled call whose callback, if any, has
\* settled; its slot is free for the next call.
Retire(r) ==
  /\ pc[r] = "done"
  /\ started < MaxCalls
  /\ \A i \in 1..Len(cbs[r]) : cbs[r][i].status # "pending"
  /\ pc' = [pc EXCEPT ![r] = "idle"]
  /\ kind' = [kind EXCEPT ![r] = "anthropic"]
  /\ gwResult' = [gwResult EXCEPT ![r] = "none"]
  /\ verdict' = [verdict EXCEPT ![r] = NoVerdict]
  /\ traceId' = [traceId EXCEPT ![r] = "none"]
  /\ provCalls' = [provCalls EXCEPT ![r] = <<>>]
  /\ outcome' = [outcome EXCEPT ![r] = NoOutcome]
  /\ cbs' = [cbs EXCEPT ![r] = <<>>]
  /\ provStream' = [provStream EXCEPT ![r] = "none"]
  /\ callerStream' = [callerStream EXCEPT ![r] = "none"]
  /\ captured' = [captured EXCEPT ![r] = <<>>]
  /\ delivered' = [delivered EXCEPT ![r] = <<>>]
  /\ UNCHANGED <<started, auxVars>>

Next ==
  \E r \in Reqs :
    \/ \E k \in Kinds : Start(r, k)
    \/ GatewayTimeout(r)
    \/ GatewayConnError(r)
    \/ \E ok \in BOOLEAN : GatewayResponds(r, ok)
    \/ GatewayHttpError(r)
    \/ \E b \in Bodies : GatewayBadBody(r, b)
    \/ \E b \in Bodies : GatewayCacheHit(r, b)
    \/ \E b \in Bodies : GatewayProceed(r, b)
    \/ \E resp \in ResponsesOf(kind[r]) : ProviderReturns(r, resp)
    \/ \E resp \in ResponsesOf(kind[r]) : ProviderStreams(r, resp)
    \/ \E e \in Errors : ProviderRaises(r, e)
    \/ \E resp \in ResponsesOf(kind[r]) : FallbackReturns(r, resp)
    \/ \E e \in Errors : FallbackRaises(r, e)
    \/ \E c \in Chunks : StreamChunk(r, c)
    \/ StreamClose(r)
    \/ StreamError(r)
    \/ CallerCancels(r)
    \/ CallbackAnswered(r)
    \/ CallbackFails(r)
    \/ Retire(r)

Spec == Init /\ [][Next]_vars

\* What the scheduling guarantees: the timer armed with setTimeout fires
\* unless the fetch settles first, and the provider settles every call made
\* to it and ends every stream it opened. Nothing is assumed of the gateway.
Fairness ==
  \A r \in Reqs :
    /\ WF_vars(GatewayTimeout(r))
    /\ WF_vars(\E resp \in ResponsesOf(kind[r]) : ProviderReturns(r, resp))
    /\ WF_vars(\E resp \in ResponsesOf(kind[r]) : ProviderStreams(r, resp))
    /\ WF_vars(\E resp \in ResponsesOf(kind[r]) : FallbackReturns(r, resp))
    /\ WF_vars(StreamClose(r))

SpecLive == Init /\ [][Next]_vars /\ Fairness

\* ------------------------------------------------- the callback senders
\* A callback sender applied to a provider response of its shape.
ApplySender ==
  /\ tkOut = NoCallback
  /\ tkOut' = CallbackOf(tkSender, "t2", tkResp)
  /\ UNCHANGED <<tkSender, tkResp, sendersRest>>

\* The next response is handed to a sender.
NextResponse ==
  /\ tkOut # NoCallback
  /\ \E k \in Senders : \E resp \in SenderInputs(k) :
       /\ tkSender' = k
       /\ tkResp' = resp
  /\ tkOut' = NoCallback
  /\ UNCHANGED sendersRest

SenderInit ==
  /\ ProtoInit
  /\ tkSender \in Senders
  /\ tkResp \in SenderInputs(tkSender)
  /\ tkOut = NoCallback
  /\ FluentIdle
  /\ AuthIdle
  /\ BuildersIdle
  /\ NormalizeIdle
  /\ CaptureIdle
  /\ VercelIdle

SenderNext == ApplySender \/ NextResponse

SpecSenders == SenderInit /\ [][SenderNext]_vars

\* ------------------------------------------------- the fluent wrappers
\* AnthropicMessagesWrapper / MistralChatCompletionsWrapper: one wrapper
\* object, two callers.  withMetadata, withSessionId and create are
\* synchronous method calls; the callers' method calls interleave.
\* Observ constructor: this.recall = options.recall || true.  The left
\* operand is the result when it is truthy, the right operand otherwise.
ObservRecall(recall) == IF recall = "true" THEN TRUE ELSE TRUE

DefaultModel(w) ==
  IF w = "anthropic" THEN "claude-3-5-sonnet-20241022" ELSE "mistral-large-latest"

withMetadata(c, metadata) ==
  /\ flDone[c] \cap {"withMetadata", "create"} = {}
  /\ _metadata' = metadata
  /\ flDone' = [flDone EXCEPT ![c] = @ \cup {"withMetadata"}]
  /\ UNCHANGED <<flWrapper, optionsRecall, _sessionId, flRequest, flCreated, fluentRest>>

withSessionId(c, sessionId) ==
  /\ flDone[c] \cap {"withSessionId", "create"} = {}
  /\ _sessionId' = sessionId
  /\ flDone' = [flDone EXCEPT ![c] = @ \cup {"withSessionId"}]
  /\ UNCHANGED <<flWrapper, optionsRecall, _metadata, flRequest, flCreated, fluentRest>>

\* A create that reads the fields and leaves them as they are.
create_keepsFields(c) ==
  /\ "create" \notin flDone[c]
  /\ flCreated < MaxCalls
  /\ flRequest' = [flRequest EXCEPT ![c] =
       buildCompletionRequest(flWrapper, DefaultModel(flWrapper), MessagesOf(c),
                              ObservRecall(optionsRecall), "production",
                              _metadata, _sessionId)]
  /\ flDone' = [flDone EXCEPT ![c] = @ \cup {"create"}]
  /\ flCreated' = flCreated + 1
  /\ UNCHANGED <<flWrapper, optionsRecall, _metadata, _sessionId, fluentRest>>

\* create up to the gateway fetch: the fields are read and reset, and the
\* request is built from what was read.
create(c) ==
  /\ "create" \notin flDone[c]
  /\ flCreated < MaxCalls
  /\ flRequest' = [flRequest EXCEPT ![c] =
       buildCompletionRequest(flWrapper, DefaultModel(flWrapper), MessagesOf(c),
                              ObservRecall(optionsRecall), "production",
                              _metadata, _sessionId)]
  /\ _metadata' = EmptyMetadata
  /\ _sessionId' = Undefined
  /\ flDone' = [flDone EXCEPT ![c] = @ \cup {"create"}]
  /\ flCreated' = flCreated + 1
  /\ UNCHANGED <<flWrapper, optionsRecall, fluentRest>>

\* The caller starts its next call on the wrapper.
NextFluentCall(c) ==
  /\ "create" \in flDone[c]
  /\ flCreated < MaxCalls
  /\ flDone' = [flDone EXCEPT ![c] = {}]
  /\ flRequest' = [flRequest EXCEPT ![c] = NoRequest]
  /\ UNCHANGED <<flWrapper, optionsRecall, _metadata, _sessionId, flCreated, fluentRest>>

FluentInit ==
  /\ ProtoInit
  /\ SendersIdle
  /\ AuthIdle
  /\ BuildersIdle
  /\ NormalizeIdle
  /\ CaptureIdle
  /\ VercelIdle
  /\ flWrapper \in {"anthropic", "mistral"}
  /\ _metadata = EmptyMetadata
  /\ _sessionId = Undefined
  /\ flDone = [c \in Reqs |-> {}]
  /\ flRequest = [c \in Reqs |-> NoRequest]
  /\ flCreated = 0
  /\ optionsRecall \in {"true", "false", Undefined}

FluentNext ==
  \E c \in Reqs :
    \/ withMetadata(c, MetadataOf(c))
    \/ withSessionId(c, SessionIdOf(c))
    \/ create(c)
    \/ NextFluentCall(c)

SpecFluent == FluentInit /\ [][FluentNext]_vars

\* ------------------------------------------------- the session token
\* Observ.getAuthHeader
getAuthHeader ==
  IF jwtToken \notin {Undefined, ""} THEN Bearer(jwtToken) ELSE Bearer(apiKey)

\* The Authorization header of the cache-check request of a wrapper.
AuthorizationOf(w) ==
  IF w \in SessionWrappers THEN getAuthHeader ELSE Bearer(apiKey)

\* Observ.jwtToken after a wrapper has received the response headers:
\* setJWTToken(sessionToken) if the wrapper reads x-session-token and the
\* header is there and not empty (if (sessionToken)).
\* A wrapper that stores whatever headers.get returns.
TokenAfterResponse_storesHeader(w, sessionToken) ==
  IF w \in SessionWrappers THEN sessionToken ELSE jwtToken

TokenAfterResponse(w, sessionToken) ==
  IF w \in SessionWrappers /\ sessionToken \notin {Undefined, ""}
    THEN sessionToken ELSE jwtToken

\* The wrapped call up to the gateway fetch: the request is sent.
AuthSend(r, w) ==
  /\ auPc[r] = "idle"
  /\ auSent < MaxCalls
  /\ auSent' = auSent + 1
  /\ auWrapper' = [auWrapper EXCEPT ![r] = w]
  /\ auRequest' = [auRequest EXCEPT ![r] =
       [Authorization |-> AuthorizationOf(w), held |-> jwtToken]]
  /\ auPc' = [auPc EXCEPT ![r] = "fetch"]
  /\ UNCHANGED <<jwtToken, auResponse, auStored, authRest>>

\* The fetch is aborted by the 10 s timer or rejects: the catch block calls
\* the provider.
AuthFetchFails(r, how) ==
  /\ auPc[r] = "fetch"
  /\ auResponse' = [auResponse EXCEPT ![r] = [kind |-> how, ok |-> FALSE, token |-> Undefined]]
  /\ auPc' = [auPc EXCEPT ![r] = "provider"]
  /\ UNCHANGED <<jwtToken, auWrapper, auRequest, auStored, auSent, authRest>>

\* The fetch resolves with a status (ok: 2xx) and headers, with or without
\* x-session-token; the token is handled before the status is looked at.
AuthResponse(r, ok, sessionToken) ==
  /\ auPc[r] = "fetch"
  /\ auResponse' = [auResponse EXCEPT ![r] =
       [kind |-> "response", ok |-> ok, token |-> sessionToken]]
  /\ jwtToken' = TokenAfterResponse(auWrapper[r], sessionToken)
  /\ auStored' = [auStored EXCEPT ![r] = TokenAfterResponse(auWrapper[r], sessionToken)]
  /\ auPc' = [auPc EXCEPT ![r] = "provider"]
  /\ UNCHANGED <<auWrapper, auRequest, auSent, authRest>>

\* The provider call settles; after a 2xx answer the callback is posted.
AuthProviderSettles(r) ==
  /\ auPc[r] = "provider"
  /\ auPc' = [auPc EXCEPT ![r] = IF auResponse[r].ok THEN "callback" ELSE "done"]
  /\ UNCHANGED <<jwtToken, auWrapper, auRequest, auResponse, auStored, auSent, authRest>>

\* The callback POST settles; its response is not read.
AuthCallbackSettles(r) ==
  /\ auPc[r] = "callback"
  /\ auPc' = [auPc EXCEPT ![r] = "done"]
  /\ UNCHANGED <<jwtToken, auWrapper, auRequest, auResponse, auStored, auSent, authRest>>

\* The call is over; the next call on the Observ instance can use the slot.
AuthRetire(r) ==
  /\ auPc[r] = "done"
  /\ auSent < MaxCalls
  /\ auPc' = [auPc EXCEPT ![r] = "idle"]
  /\ auWrapper' = [auWrapper EXCEPT ![r] = "none"]
  /\ auRequest' = [auRequest EXCEPT ![r] = NoAuthRequest]
  /\ auResponse' = [auResponse EXCEPT ![r] = NoAuthResponse]
  /\ auStored' = [auStored EXCEPT ![r] = "none"]
  /\ UNCHANGED <<jwtToken, auSent, authRest>>

AuthInit ==
  /\ ProtoInit
  /\ SendersIdle
  /\ FluentIdle
  /\ AuthIdle
  /\ BuildersIdle
  /\ NormalizeIdle
  /\ CaptureIdle
  /\ VercelIdle

AuthNext ==
  \E r \in Reqs :
    \/ \E w \in Wrappers : AuthSend(r, w)
    \/ \E how \in {"timeout", "conn"} : AuthFetchFails(r, how)
    \/ \E ok \in BOOLEAN : \E t \in SessionTokens \cup {Undefined, ""} : AuthResponse(r, ok, t)
    \/ AuthProviderSettles(r)
    \/ AuthCallbackSettles(r)
    \/ AuthRetire(r)

SpecAuth == AuthInit /\ [][AuthNext]_vars

\* ------------------------------------------- cache-hit synthesis, builders
\* gatewayResponse.content || ""
OrEmpty(content) == IF content = Undefined THEN "" ELSE content

\* The AnthropicMessage returned by create on a cache hit.
AnthropicCacheHit(content, model) ==
  [id |-> "", type |-> "message", role |-> "assistant",
   content |-> <<[type |-> "text", text |-> OrEmpty(content)]>>,
   model |-> model, stop_reason |-> "end_turn", stop_sequence |-> "null",
   usage |-> [input_tokens |-> 0, output_tokens |-> 0]]

\* The MistralCompletion returned by create on a cache hit.
MistralCacheHit(content, model) ==
  [id |-> "", object |-> "chat.completion", model |-> model,
   choices |-> <<[index |-> 0,
                  message |-> [role |-> "assistant", content |-> OrEmpty(content)],
                  finish_reason |-> "stop"]>>,
   usage |-> [prompt_tokens |-> 0, completion_tokens |-> 0, total_tokens |-> 0]]

\* VercelResponseBuilder.buildGenerateResult
buildGenerateResult_lengthAsUsage(cachedContent, modelId) ==
  [content |-> cachedContent, toolCalls |-> <<>>, toolResults |-> <<>>,
   finishReason |-> "stop",
   usage |-> [promptTokens |-> 0, completionTokens |-> 1, totalTokens |-> 1],
   warnings |-> <<>>, response |-> [id |-> "cached", modelId |-> modelId]]

buildGenerateResult(cachedContent, modelId) ==
  [content |-> cachedContent, toolCalls |-> <<>>, toolResults |-> <<>>,
   finishReason |-> "stop",
   usage |-> [promptTokens |-> 0, completionTokens |-> 0, totalTokens |-> 0],
   warnings |-> <<>>, response |-> [id |-> "cached", modelId |-> modelId]]

\* VercelResponseBuilder.simulateStream: the chunks start() enqueues before
\* it closes the stream.
simulateStream_perWord(cachedContent, modelId) ==
  <<[type |-> "text-delta", textDelta |-> cachedContent,
     finishReason |-> "", usage |-> <<>>],
    [type |-> "text-delta", textDelta |-> "",
     finishReason |-> "", usage |-> <<>>],
    [type |-> "finish", textDelta |-> "", finishReason |-> "stop",
     usage |-> [promptTokens |-> 0, completionTokens |-> 0, totalTokens |-> 0]]>>

simulateStream(cachedContent, modelId) ==
  <<[type |-> "text-delta", textDelta |-> cachedContent,
     finishReason |-> "", usage |-> <<>>],
    [type |-> "finish", textDelta |-> "", finishReason |-> "stop",
     usage |-> [promptTokens |-> 0, completionTokens |-> 0, totalTokens |-> 0]]>>

\* The text of a response as the callback senders read it.
TextOfAnthropic(response) ==
  IF Len(response.content) > 0 THEN response.content[1].text ELSE ""

TextOfMistral(response) ==
  IF Len(response.choices) > 0 THEN response.choices[1].message.content ELSE ""

TextOfGenerate(result) == result.content

ExtractedText(k, response) ==
  CASE k = "anthropic" -> TextOfAnthropic(response)
    [] k = "mistral" -> TextOfMistral(response)
    [] OTHER -> TextOfGenerate(response)

FinishReasonOf(k, response) ==
  CASE k = "anthropic" -> response.stop_reason
    [] k = "mistral" -> response.choices[1].finish_reason
    [] OTHER -> response.finishReason

\* The cache_hit branch of create / wrapGenerate: the response is built.
SynthesizeResponse ==
  /\ synStage = "input"
  /\ synKind # "stream"
  /\ synOut' = CASE synKind = "anthropic" -> AnthropicCacheHit(synContent, synModel)
                  [] synKind = "mistral" -> MistralCacheHit(synContent, synModel)
                  [] OTHER -> buildGenerateResult(synContent, synModel)
  /\ synStage' = "built"
  /\ UNCHANGED <<synKind, synContent, synModel, simVars, crRequest, buildersRest>>

\* The cache_hit branch of wrapStream: the ReadableStream is constructed;
\* start() enqueues the chunks and closes the stream.
SimulateStream ==
  /\ synStage = "input"
  /\ synKind = "stream"
  /\ simQueue' = simulateStream(synContent, synModel)
  /\ simClosed' = TRUE
  /\ synStage' = "built"
  /\ UNCHANGED <<synKind, synContent, synModel, synOut, simRead, simDone,
                 crRequest, buildersRest>>

\* The caller reads the next queued chunk of the simulated stream.
ReadChunk ==
  /\ simQueue # <<>>
  /\ simRead' = Append(simRead, Head(simQueue))
  /\ simQueue' = Tail(simQueue)
  /\ UNCHANGED <<synVars, simClosed, simDone, crRequest, buildersRest>>

\* The caller reads from the drained, closed stream: the read reports done.
ReadDone ==
  /\ simClosed
  /\ simQueue = <<>>
  /\ ~simDone
  /\ simDone' = TRUE
  /\ UNCHANGED <<synVars, simQueue, simClosed, simRead, crRequest, buildersRest>>

\* The next cache_hit verdict arrives, for a call through some wrapper.
NextCacheHit ==
  /\ synStage = "built"
  /\ \E k \in Kinds : \E c \in CachedContents : \E m \in Models :
       /\ synKind' = k
       /\ synContent' = c
       /\ synModel' = m
  /\ synStage' = "input"
  /\ synOut' = NoSynth
  /\ simQueue' = <<>>
  /\ simClosed' = FALSE
  /\ simRead' = <<>>
  /\ simDone' = FALSE
  /\ UNCHANGED <<crRequest, buildersRest>>

\* A wrapper builds the request of a cache check.
BuildRequest ==
  /\ \E provider \in Providers : \E model \in Models : \E recall \in BOOLEAN :
     \E environment \in Environments :
     \E metadata \in {Undefined, EmptyMetadata, MetadataOf(1)} :
     \E sessionId \in {Undefined, SessionIdOf(1)} :
       crRequest' = buildCompletionRequest(provider, model, MessagesOf(1), recall,
                                           environment, metadata, sessionId)
  /\ UNCHANGED <<synVars, simVars, buildersRest>>

BuildersInit ==
  /\ ProtoInit
  /\ SendersIdle
  /\ FluentIdle
  /\ AuthIdle
  /\ NormalizeIdle
  /\ CaptureIdle
  /\ VercelIdle
  /\ synStage = "input"
  /\ synKind \in Kinds
  /\ synContent \in CachedContents
  /\ synModel \in Models
  /\ synOut = NoSynth
  /\ simQueue = <<>>
  /\ simClosed = FALSE
  /\ simRead = <<>>
  /\ simDone = FALSE
  /\ crRequest = NoRequest

BuildersNext ==
  \/ SynthesizeResponse
  \/ SimulateStream
  \/ ReadChunk
  \/ ReadDone
  \/ NextCacheHit
  \/ BuildRequest

SpecBuilders == BuildersInit /\ [][BuildersNext]_vars

\* ------------------------------------------------- message normalization
\* The truthiness of a JavaScript value, as in x || d and if (x).
Truthy(x) ==
  \/ x.t \in {"object", "array"}
  \/ x.t = "string" /\ x.v # ""
  \/ x.t = "number" /\ x.v # "0"

\* x || d
Or(x, d) == IF Truthy(x) THEN x ELSE d

\* a || b of two strings
OrString(a, b) == IF a # "" THEN a ELSE b

\* Array.prototype.join
RECURSIVE Join(_, _)
Join(strings, separator) ==
  IF strings = <<>> THEN ""
  ELSE IF Len(strings) = 1 THEN strings[1]
  ELSE strings[1] \o separator \o Join(Tail(strings), separator)

\* String(x)
String(x) ==
  CASE x.t = "string" -> x.v
    [] x.t = "number" -> x.v
    [] x.t = "object" -> "[object Object]"
    [] x.t = "array" ->
         Join([i \in 1..Len(x.parts) |->
                 IF x.parts[i].type = "null" THEN "" ELSE "[object Object]"], ",")
    [] x.t = "null" -> "null"
    [] OTHER -> "undefined"

\* JSON.stringify(x) of a string, a number or an object
JSONstringify(x) ==
  IF x.t = "string" THEN "\"" \o x.v \o "\"" ELSE x.v

\* typeof x === "string" ? x : JSON.stringify(x)
StringOrJSON(x) == IF x.t = "string" THEN x.v ELSE JSONstringify(x)

\* convertMessagesToGatewayFormat of providers/base.ts: the loop over the
\* caller's messages.
RECURSIVE convertMessagesToGatewayFormat(_)
convertMessagesToGatewayFormat(messages) ==
  IF messages = <<>> THEN <<>>
  ELSE
    LET msg == Head(messages)
        gatewayMsg ==
          [EmptyMsg EXCEPT
             !.role = Str(String(Or(msg.role, Str("user")))),
             !.content = Str(String(Or(msg.content, Str("")))),
             !.tool_calls = msg.tool_calls,
             !.tool_call_id = IF Truthy(msg.tool_call_id) THEN msg.tool_call_id ELSE Absent,
             !.name = IF Truthy(msg.name) THEN msg.name ELSE Absent]
        pushed ==
          IF msg.t # "object" THEN <<>>
          ELSE IF msg.role.t # "absent" /\ msg.content.t # "absent" THEN <<gatewayMsg>>
          ELSE IF msg.text.t # "absent"
            THEN <<Msg("user", Str(String(Or(msg.text, Str("")))))>>
          ELSE <<>>
    IN pushed \o convertMessagesToGatewayFormat(Tail(messages))

\* const messages = params.messages || []; convertMessagesToGatewayFormat(
\* messages) of a provider wrapper: for...of throws a TypeError on a value
\* that is not iterable, and the characters of a string are no objects.
GatewayMessagesOf(prompt) ==
  CASE prompt.t = "array" -> Returned(convertMessagesToGatewayFormat(prompt.list))
    [] prompt.t \in {"null", "undefined", "string"} -> Returned(<<>>)
    [] OTHER -> Threw

\* The tool_calls built from msg.toolCalls.
SiblingToolCalls(toolCalls) ==
  [i \in 1..Len(toolCalls) |->
     LET tc == toolCalls[i] IN
       [ToolCall(OrString(tc.toolCallId, tc.id), OrString(tc.toolName, tc.name),
                 IF tc.args.t = "string" THEN tc.args
                 ELSE Str(JSONstringify(Or(tc.args, Or(tc.arguments, Obj("{}"))))),
                 "", "", Absent)
          EXCEPT !.type = OrString(tc.type, "function")]]

\* Reading a property of null throws a TypeError: msg.role of a null
\* message, part.type of a null content part.
convertMessageThrows(msg) ==
  \/ msg.t = "null"
  \/ msg.content.t = "array" /\ \E i \in 1..Len(msg.content.parts) : msg.content.parts[i].type = "null"

\* A converter that gives every message the role "user".
convertMessage_userRole(msg) ==
  [EmptyMsg EXCEPT !.role = Str("user"), !.content = Str(String(msg.content))]

\* VercelMessageConverter.convertMessage of providers/base.ts.
convertMessage(msg) ==
  LET role == Or(msg.role, Str("user"))
      textParts == SelectSeq(msg.content.parts, LAMBDA part : part.type = "text")
      content ==
        CASE msg.content.t = "string" -> msg.content.v
          [] msg.content.t = "array" ->
               Join([i \in 1..Len(textParts) |-> textParts[i].text], "\n")
          [] msg.content.t = "object" -> JSONstringify(msg.content)
          [] OTHER -> ""
  IN [EmptyMsg EXCEPT
        !.role = role,
        !.content = Str(content),
        !.tool_calls = SiblingToolCalls(msg.toolCalls),
        !.tool_call_id = IF Truthy(msg.toolCallId) THEN msg.toolCallId ELSE Absent,
        !.name = IF Truthy(msg.toolName) THEN msg.toolName ELSE Absent]

\* VercelMessageConverter.convertMessage of the version that also reads the
\* tool-call and tool-result parts of the content.
convertMessage_part000(msg) ==
  LET role == Or(msg.role, Str("user"))
      parts == msg.content.parts
      textParts == SelectSeq(parts, LAMBDA part : part.type = "text" /\ part.text # "")
      callParts == SelectSeq(parts, LAMBDA part : part.type = "tool-call")
      resultParts == SelectSeq(parts, LAMBDA part : part.type = "tool-result")
      withResult == SelectSeq(resultParts, LAMBDA part : part.result.t # "absent")
      extractedToolCalls ==
        [i \in 1..Len(callParts) |->
           ToolCall(callParts[i].toolCallId, callParts[i].toolName,
                    IF callParts[i].args.t = "string" THEN callParts[i].args
                    ELSE Str(JSONstringify(Or(callParts[i].args, Obj("{}")))),
                    "", "", Absent)]
      toolCallId == IF resultParts = <<>> THEN "" ELSE resultParts[Len(resultParts)].toolCallId
      toolName == IF resultParts = <<>> THEN "" ELSE resultParts[Len(resultParts)].toolName
      resultContent ==
        IF withResult = <<>> THEN "" ELSE StringOrJSON(withResult[Len(withResult)].result)
      content ==
        CASE msg.content.t = "string" -> msg.content.v
          [] msg.content.t = "array" ->
               IF textParts # <<>> /\ resultContent = ""
                 THEN Join([i \in 1..Len(textParts) |-> textParts[i].text], "\n")
                 ELSE resultContent
          [] msg.content.t = "object" -> JSONstringify(msg.content)
          [] OTHER -> ""
  IN [EmptyMsg EXCEPT
        !.role = role,
        !.content =
          IF role = Str("tool") /\ content = "" /\ msg.result.t # "absent"
            THEN Str(StringOrJSON(msg.result)) ELSE Str(content),
        !.tool_calls =
          IF extractedToolCalls # <<>> THEN extractedToolCalls
          ELSE SiblingToolCalls(msg.toolCalls),
        !.tool_call_id =
          IF toolCallId # "" THEN Str(toolCallId)
          ELSE IF Truthy(msg.toolCallId) THEN msg.toolCallId
          ELSE IF Truthy(msg.tool_call_id) THEN msg.tool_call_id
          ELSE Absent,
        !.name =
          IF toolName # "" THEN Str(toolName)
          ELSE IF Truthy(msg.toolName) THEN msg.toolName
          ELSE IF Truthy(msg.name) THEN msg.name
          ELSE Absent]

\* prompt.map((msg) => this.convertMessage(msg))
MapConvertMessage(converter, list) ==
  IF \E i \in 1..Len(list) : convertMessageThrows(list[i]) THEN Threw
  ELSE Returned([i \in 1..Len(list) |->
                   IF converter = "VercelMessageConverter"
                     THEN convertMessage(list[i]) ELSE convertMessage_part000(list[i])])

\* VercelMessageConverter.toGatewayFormat, the same in both versions. A
\* string has no map method.
toGatewayFormat(converter, prompt) ==
  CASE prompt.t = "string" -> Returned(<<Msg("user", Str(prompt.v))>>)
    [] prompt.t = "array" -> MapConvertMessage(converter, prompt.list)
    [] prompt.t = "object" /\ prompt.messages = "array" -> MapConvertMessage(converter, prompt.list)
    [] prompt.t = "object" /\ prompt.messages = "string" -> Threw
    [] OTHER -> Returned(<<Msg("user", Str(String(prompt)))>>)

\* The normalization a wrapped call starts with.
Normalized(fn, prompt) ==
  IF fn = "convertMessagesToGatewayFormat"
    THEN GatewayMessagesOf(prompt) ELSE toGatewayFormat(fn, prompt)

\* The messages of a wrapped call are normalized and the request is built:
\* the wrapped call goes on to the cache check.
NormalizeReturns ==
  /\ nzStage = "input"
  /\ ~Normalized(nzFn, nzPrompt).threw
  /\ nzOut' = Normalized(nzFn, nzPrompt)
  /\ nzStage' = "normalized"
  /\ nzCaller' = "gw_fetch"
  /\ UNCHANGED <<nzFn, nzPrompt, nzAgain, normalizeRest>>

\* The normalization throws. It runs before the try block of the wrapped
\* call, so the promise of the async function is rejected with the error.
NormalizeThrows ==
  /\ nzStage = "input"
  /\ Normalized(nzFn, nzPrompt).threw
  /\ nzOut' = Threw
  /\ nzStage' = "normalized"
  /\ nzCaller' = "rejected"
  /\ UNCHANGED <<nzFn, nzPrompt, nzAgain, normalizeRest>>

\* The list a normalizer returned is normalized once more.
NormalizeAgain ==
  /\ nzStage = "normalized"
  /\ ~nzOut.threw
  /\ nzAgain' = Normalized(nzFn, Prompt("array", "", "absent", nzOut.list))
  /\ nzStage' = "again"
  /\ UNCHANGED <<nzFn, nzPrompt, nzOut, nzCaller, normalizeRest>>

NormalizeInit ==
  /\ ProtoInit
  /\ SendersIdle
  /\ FluentIdle
  /\ AuthIdle
  /\ BuildersIdle
  /\ CaptureIdle
  /\ VercelIdle
  /\ nzFn \in Normalizers
  /\ nzPrompt \in Prompts
  /\ nzStage = "input"
  /\ nzOut = Returned(<<>>)
  /\ nzAgain = Returned(<<>>)
  /\ nzCaller = "idle"

NormalizeNext ==
  \/ NormalizeReturns
  \/ NormalizeThrows
  \/ NormalizeAgain

SpecNormalize == NormalizeInit /\ [][NormalizeNext]_vars

\* ------------------------------------------- the usage of a captured stream
\* transform of the capture stream: the chunk is pushed to chunks[].
CaptureChunk(chunk) ==
  /\ xtTokens = -1
  /\ Len(xtChunks) < MaxCaptured
  /\ xtChunks' = Append(xtChunks, chunk)
  /\ UNCHANGED <<xtTokens, captureRest>>

\* flush of the capture stream: tokensUsed is computed from chunks[].
FlushTokens ==
  /\ xtTokens = -1
  /\ xtTokens' = extractTokensFromChunks(xtChunks)
  /\ UNCHANGED <<xtChunks, captureRest>>

CaptureNext ==
  \/ \E chunk \in StepChunks : CaptureChunk(chunk)
  \/ FlushTokens

SpecCapture == Init /\ [][CaptureNext]_vars

\* ------------------------------------- metadata in the AI SDK middleware
\* generateText / streamText on the wrapped model: the AI SDK makes the
\* params object of the call.
generateText(c, config) ==
  /\ vcParams[c].at = "none"
  /\ vcCalls < MaxCalls
  /\ vcCalls' = vcCalls + 1
  /\ vcConfig' = [vcConfig EXCEPT ![c] = config]
  /\ vcParams' = [vcParams EXCEPT ![c] = [NoParams EXCEPT !.at = "made"]]
  /\ UNCHANGED <<vcRequest, vercelRest>>

\* transformParams: metadata and sessionId of providerOptions.observ are
\* attached to the params object of the call.
transformParams(c) ==
  /\ vcParams[c].at = "made"
  /\ vcParams' = [vcParams EXCEPT ![c] =
       IF vcConfig[c].has
         THEN [at |-> "transformed", _observMetadata |-> vcConfig[c].metadata,
               _observSessionId |-> vcConfig[c].sessionId]
         ELSE [@ EXCEPT !.at = "transformed"]]
  /\ UNCHANGED <<vcConfig, vcRequest, vcCalls, vercelRest>>

\* A wrapGenerate that reads the params object of the other call.
wrapGenerate_otherParams(c) ==
  /\ vcParams[c].at = "transformed"
  /\ vcRequest' = [vcRequest EXCEPT ![c] =
       buildCompletionRequest("anthropic", "claude-sonnet-4-20250514", MessagesOf(c),
                              ObservRecall(optionsRecall), "production",
                              vcParams[CHOOSE d \in Reqs : d # c]._observMetadata,
                              vcParams[CHOOSE d \in Reqs : d # c]._observSessionId)]
  /\ vcParams' = [vcParams EXCEPT ![c].at = "wrapped"]
  /\ UNCHANGED <<vcConfig, vcCalls, vercelRest>>

\* wrapGenerate / wrapStream up to the cache check: metadata and session id
\* are read from the params of the call and the request is built.
wrapGenerate(c) ==
  /\ vcParams[c].at = "transformed"
  /\ vcRequest' = [vcRequest EXCEPT ![c] =
       buildCompletionRequest("anthropic", "claude-sonnet-4-20250514", MessagesOf(c),
                              ObservRecall(optionsRecall), "production",
                              vcParams[c]._observMetadata, vcParams[c]._observSessionId)]
  /\ vcParams' = [vcParams EXCEPT ![c].at = "wrapped"]
  /\ UNCHANGED <<vcConfig, vcCalls, vercelRest>>

\* The call is over; the caller can make its next call on the wrapped model.
VercelCallEnds(c) ==
  /\ vcParams[c].at = "wrapped"
  /\ vcCalls < MaxCalls
  /\ vcConfig' = [vcConfig EXCEPT ![c] = NoConfig]
  /\ vcParams' = [vcParams EXCEPT ![c] = NoParams]
  /\ vcRequest' = [vcRequest EXCEPT ![c] = NoRequest]
  /\ UNCHANGED <<vcCalls, vercelRest>>

VercelNext ==
  \E c \in Reqs :
    \/ \E config \in ObservConfigs(c) : generateText(c, config)
    \/ transformParams(c)
    \/ wrapGenerate(c)
    \/ VercelCallEnds(c)

SpecVercel == Init /\ [][VercelNext]_vars

\* ------------------------------------------------------------------ claims
\* The gateway check of call r ended in a failure: the fetch timed out or
\* could not connect, the status was not 2xx, or the body could not be
\* parsed into an object.
GatewayFailed(r) ==
  gwResult[r] \in {"timeout", "conn", "http", "badjson", "nullbody"}

GatewayInFlight(r) == pc[r] \in {"gw_fetch", "gw_json", "gw_text"}

\* The caller of r received exactly what provider call c settled to.
ReceivedFrom(r, c) ==
  \/ /\ c.state = "ok"
     /\ outcome[r].type = "value"
     /\ outcome[r].resp = c.resp
  \/ /\ c.state = "err"
     /\ outcome[r].type = "error"
     /\ outcome[r].err = c.err

\* The finish reason of a completion that ended normally, per shape.
NormalFinish(k) == IF k = "anthropic" THEN "end_turn" ELSE "stop"

\* Every field of a usage object is zero.
AllZero(usage) == \A f \in DOMAIN usage : usage[f] = 0

\* The text carried by the text-delta chunks of a sequence, in order.
RECURSIVE TextDeltasOf(_)
TextDeltasOf(chunks) ==
  IF chunks = <<>> THEN ""
  ELSE (IF Head(chunks).type = "text-delta" THEN Head(chunks).delta ELSE "")
       \o TextDeltasOf(Tail(chunks))

\* C1 - fallback invariant: when the gateway check fails in any way, the
\* real provider is invoked once, with the caller's own params, nothing
\* reaches the caller before that call settles, and the caller then receives
\* exactly what it returned or raised.
C1_FallbackInvariant ==
  \A r \in Reqs :
    GatewayFailed(r) =>
      /\ Len(provCalls[r]) = 1
      /\ provCalls[r][1].params = ParamsOf(r)
      /\ IF provCalls[r][1].state = "pending"
           THEN outcome[r] = NoOutcome
           ELSE ReceivedFrom(r, provCalls[r][1])

C1_Witness ==
  \E r \in Reqs :
    /\ gwResult[r] = "timeout"
    /\ pc[r] = "done"
    /\ outcome[r].type = "value"
    /\ outcome[r].resp.text = "42"

\* C2 - on a cache_hit verdict the call returns the synthesized response
\* and no real provider call is ever made for it.
C2_CacheHitNoProviderCall ==
  \A r \in Reqs :
    verdict[r].action = "cache_hit" =>
      /\ provCalls[r] = <<>>
      /\ pc[r] = "done"
      /\ outcome[r].type \in {"synth", "synth_stream"}

C2_Witness ==
  \E r \in Reqs :
    /\ verdict[r].action = "cache_hit"
    /\ kind[r] = "stream"
    /\ outcome[r].type = "synth_stream"
    /\ outcome[r].text = "Hi there!"

\* C3 - the gateway check of a call has completed (verdict, failure or
\* timeout) before its provider call is started or its cached response is
\* synthesized: no provider call and no result exist while the check is
\* still in flight or has not ended.
C3_GatewayBeforeProvider ==
  \A r \in Reqs :
    (provCalls[r] # <<>> \/ outcome[r] # NoOutcome) =>
      /\ gwResult[r] # "none"
      /\ ~GatewayInFlight(r)

C3_Witness ==
  \E r \in Reqs :
    /\ gwResult[r] = "verdict"
    /\ Len(provCalls[r]) = 1
    /\ provCalls[r][1].state = "pending"

\* C4 - an error raised by the provider call made after a proceed verdict
\* is propagated to the caller unmodified, with no further action by the
\* wrapper: no second provider call, and the caller sees that error.
C4_ProviderErrorPropagated ==
  \A r \in Reqs :
    (/\ verdict[r].action = "proceed"
     /\ provCalls[r] # <<>>
     /\ provCalls[r][1].state = "err") =>
      /\ Len(provCalls[r]) = 1
      /\ pc[r] = "done"
      /\ outcome[r].type = "error"
      /\ outcome[r].err = provCalls[r][1].err

\* C5 - when the gateway check of a call fails, no telemetry callback is
\* ever dispatched for it, whatever the provider then returns.
C5_NoCallbackOnGatewayFailure ==
  \A r \in Reqs : GatewayFailed(r) => cbs[r] = <<>>

C5_Witness ==
  \E r \in Reqs :
    /\ gwResult[r] = "http"
    /\ pc[r] = "done"
    /\ outcome[r].type = "value"
    /\ outcome[r].resp.usage.has

\* C6 - at most one telemetry callback is dispatched per call, on every
\* path and under every interleaving of concurrent calls.
C6_AtMostOneCallback ==
  \A r \in Reqs : Len(cbs[r]) <= 1

C6_Witness ==
  /\ \A r \in Reqs : Len(cbs[r]) = 1
  /\ \E r \in Reqs : kind[r] = "stream" /\ Len(captured[r]) = MaxChunks
  /\ \E r \in Reqs : kind[r] # "stream"

\* C7 - every telemetry callback carries the trace_id of the gateway
\* verdict of its own call, also when other calls with other trace ids are
\* in flight.
C7_CallbackTraceId ==
  \A r \in Reqs :
    \A i \in 1..Len(cbs[r]) :
      /\ verdict[r].action # "none"
      /\ cbs[r][i].trace_id = verdict[r].trace_id

C7_Witness ==
  /\ \A r \in Reqs : cbs[r] # <<>>
  /\ \E r, q \in Reqs :
       /\ verdict[r].trace_id = "t1"
       /\ verdict[q].trace_id = "t2"
       /\ cbs[r][1].status = "pending"
       /\ cbs[q][1].status = "pending"

C9_CallbackFailureInvisible ==
  \A r \in Reqs :
    /\ callerStream[r] = "errored" => provStream[r] = "errored"
    /\ provStream[r] = "closed" => callerStream[r] = "closed"

\* C10 - on a cache miss the caller's result does not wait on the callback:
\* in every state in which the provider call made after the verdict has
\* resolved, the caller holds the provider's response, so also while the
\* callback POST is pending and if it is never answered.
C10_ReturnDoesNotAwaitCallback ==
  \A r \in Reqs :
    (/\ kind[r] # "stream"
     /\ gwResult[r] = "verdict"
     /\ provCalls[r] # <<>>
     /\ provCalls[r][1].state = "ok") =>
      /\ pc[r] = "done"
      /\ outcome[r].type = "value"
      /\ outcome[r].resp = provCalls[r][1].resp

C10_Witness ==
  \E r \in Reqs :
    /\ kind[r] = "generate"
    /\ pc[r] = "done"
    /\ outcome[r].type = "value"
    /\ cbs[r] # <<>>
    /\ cbs[r][1].status = "pending"

\* C11 - a telemetry callback is never dispatched before the real provider
\* call of the same request has resolved (create, wrapGenerate) or, for a
\* streaming call, before the provider's stream has closed: whenever a
\* callback of a call exists, its provider call has resolved and, if it
\* streams, the provider's stream is closed.
C11_CallbackAfterProvider ==
  \A r \in Reqs :
    cbs[r] # <<>> =>
      /\ provCalls[r] # <<>>
      /\ provCalls[r][1].state = "ok"
      /\ kind[r] = "stream" => provStream[r] = "closed"

C11_Witness ==
  /\ \E r \in Reqs :
       /\ kind[r] = "stream"
       /\ provStream[r] = "closed"
       /\ Len(captured[r]) = MaxChunks
       /\ cbs[r] # <<>>
  /\ \E r \in Reqs :
       /\ kind[r] = "anthropic"
       /\ provCalls[r] # <<>>
       /\ provCalls[r][1].state = "ok"
       /\ cbs[r] # <<>>

\* C12 - per-call metadata and session id are never applied to another
\* call's request: the request built by a caller's create carries the
\* metadata and the session id that caller attached (and none it did not
\* attach), under every interleaving of the two callers' method calls.
C12_OwnMetadataAndSession ==
  \A c \in Reqs :
    "create" \in flDone[c] =>
      /\ flRequest[c].metadata =
           IF "withMetadata" \in flDone[c] THEN MetadataOf(c) ELSE EmptyMetadata
      /\ flRequest[c].external_session_id =
           IF "withSessionId" \in flDone[c] THEN SessionIdOf(c) ELSE Undefined

\* C13 - every gateway cache-check request carries Authorization
\* "Bearer <sessionToken>" when the Observ instance holds a session token at
\* the time the request is sent and "Bearer <apiKey>" otherwise, whichever
\* wrapper sends it.
C13_AuthorizationHeader ==
  \A r \in Reqs :
    auPc[r] # "idle" =>
      auRequest[r].Authorization =
        IF auRequest[r].held # Undefined
          THEN Bearer(auRequest[r].held) ELSE Bearer(apiKey)

\* C14 - whenever the response to a cache check carries an x-session-token
\* header, that token is the one stored on the Observ instance once the
\* response has been handled, whichever wrapper made the request.
C14_SessionTokenStored ==
  \A r \in Reqs :
    (auResponse[r].kind = "response" /\ auResponse[r].token # Undefined) =>
      auStored[r] = auResponse[r].token

\* C15 - the stored session token changes only in a step in which a
\* cache check receives a 2xx response carrying that token: not on a
\* timeout, a connection failure or a non-2xx response, and not when a
\* provider call or a callback settles.
C15_TokenFrame ==
  [][jwtToken' # jwtToken =>
       \E r \in Reqs :
         /\ auPc[r] = "fetch"
         /\ auResponse'[r].kind = "response"
         /\ auResponse'[r].ok
         /\ auResponse'[r].token = jwtToken']_vars

\* C16 - cache-hit synthesis: for every cached content string c and model
\* m, the response synthesized on a cache hit has extracted text exactly c,
\* every usage field zero and the finish reason of a normal completion, in
\* the Anthropic, the Mistral and the Vercel generate shape.
C16_CacheHitSynthesis ==
  (synStage = "built" /\ synKind # "stream" /\ synContent # Undefined) =>
    /\ ExtractedText(synKind, synOut) = synContent
    /\ AllZero(synOut.usage)
    /\ FinishReasonOf(synKind, synOut) = NormalFinish(synKind)

C16_Witness ==
  /\ synStage = "built"
  /\ synKind = "mistral"
  /\ synContent = "Hi there!"
  /\ TextOfMistral(synOut) = "Hi there!"
  /\ synOut.usage.total_tokens = 0

C18_StreamingEquivalence ==
  \A r \in Reqs :
    provStream[r] # "none" =>
      /\ delivered[r] = captured[r]
      /\ provStream[r] = "open" => callerStream[r] = "open"
      /\ provStream[r] = "closed" => callerStream[r] = "closed"

\* C19 - on a cache-miss streaming call, once the provider's stream has
\* closed a callback has been triggered whose content is the concatenation,
\* in stream order, of the text of the text-delta chunks forwarded to the
\* caller.
C19_StreamCallbackContent ==
  \A r \in Reqs :
    provStream[r] = "closed" =>
      /\ Len(cbs[r]) = 1
      /\ cbs[r][1].content = TextDeltasOf(delivered[r])

\* C20 - every CompletionRequest built by buildCompletionRequest has
\* features.trace = true, features.resilience = false and features.adapt =
\* false, whatever the arguments, and building it changes nothing else.
C20_FeatureFlags ==
  /\ [](crRequest # NoRequest =>
          /\ crRequest.features.trace
          /\ ~crRequest.features.resilience
          /\ ~crRequest.features.adapt)
  /\ [][crRequest' # crRequest =>
          UNCHANGED <<synVars, simVars, buildersRest>>]_vars

C20_Witness ==
  /\ crRequest.provider = "openai"
  /\ ~crRequest.features.recall
  /\ crRequest.features.trace
  /\ crRequest.metadata = MetadataOf(1)
  /\ crRequest.external_session_id = Undefined

\* C21 - features.recall of every request sent to the gateway mirrors the
\* caller's configuration: true when the Observ instance was constructed
\* with recall: true, false when constructed with recall: false or without
\* recall.
C21_RecallMirrorsConfiguration ==
  \A c \in Reqs :
    "create" \in flDone[c] =>
      flRequest[c].features.recall = (optionsRecall = "true")

\* The caller's message list, when the prompt carries one.
CallerList == IF nzPrompt.t = "array" \/ nzPrompt.messages = "array" THEN nzPrompt.list ELSE <<>>
HasCallerList == nzPrompt.t = "array" \/ (nzPrompt.t = "object" /\ nzPrompt.messages = "array")
IsVercel == nzFn # "convertMessagesToGatewayFormat"

\* C22 - VercelMessageConverter.toGatewayFormat never throws: for every
\* prompt value it returns a message list, and a prompt of an unrecognized
\* shape gives the single user message whose content is String(value).
C22_NormalizerNeverThrows ==
  IsVercel /\ nzStage # "input" =>
    /\ ~nzOut.threw
    /\ ~HasCallerList /\ nzPrompt.t # "string" =>
         nzOut.list = <<Msg("user", Str(String(nzPrompt)))>>

\* C23 - a failure raised while the messages are normalized leads to the
\* direct provider call, and not to an error for the caller.
C23_NormalizationInsideFallback ==
  nzStage # "input" /\ nzOut.threw => nzCaller # "rejected"

\* C26 - a list of messages that are already canonical (non-empty role,
\* string content) is normalized to a list of the same length and order with
\* every role and content preserved, by both normalizers, and normalizing the
\* result again changes nothing.
C26_NormalizationIdempotent ==
  nzPrompt.t = "array" /\ (\A i \in 1..Len(nzPrompt.list) : nzPrompt.list[i] \in CanonicalMsgs) =>
    /\ nzStage # "input" =>
         /\ ~nzOut.threw
         /\ Len(nzOut.list) = Len(nzPrompt.list)
         /\ \A i \in 1..Len(nzPrompt.list) :
              /\ nzOut.list[i].role = nzPrompt.list[i].role
              /\ nzOut.list[i].content = nzPrompt.list[i].content
    /\ nzStage = "again" => nzAgain = nzOut

\* A list of two canonical messages, a tool result among them, has been
\* normalized twice by the AI SDK converter.
C26_Witness ==
  /\ nzStage = "again"
  /\ nzFn = "VercelMessageConverter"
  /\ nzPrompt.t = "array"
  /\ Len(nzPrompt.list) = 2
  /\ \A i \in 1..2 : nzPrompt.list[i] \in CanonicalMsgs
  /\ nzPrompt.list[1].role = Str("user")
  /\ nzPrompt.list[2].role = Str("tool")

\* C27 - every canonical message produced has a non-empty role and a string
\* content, tool_calls only when its role is assistant, tool_call_id and name
\* only when its role is tool.
C27_CanonicalMessageShape ==
  nzStage # "input" /\ ~nzOut.threw =>
    \A i \in 1..Len(nzOut.list) :
      LET m == nzOut.list[i] IN
        /\ m.role.t = "string" /\ m.role.v # ""
        /\ m.content.t = "string"
        /\ m.tool_calls # <<>> => m.role.v = "assistant"
        /\ m.tool_call_id.t # "absent" \/ m.name.t # "absent" => m.role.v = "tool"

\* C28 - function.arguments of every tool call of a canonical message is a
\* string.
C28_ToolCallArgumentsAreStrings ==
  nzStage # "input" /\ ~nzOut.threw =>
    \A i \in 1..Len(nzOut.list) :
      \A j \in 1..Len(nzOut.list[i].tool_calls) :
        nzOut.list[i].tool_calls[j].arguments.t = "string"

\* C29 - the normalized list has at least one element whenever the caller's
\* message list has at least one.
C29_NonEmptyStaysNonEmpty ==
  nzStage # "input" /\ ~nzOut.threw /\ HasCallerList /\ Len(CallerList) > 0 =>
    Len(nzOut.list) > 0

\* The body of the gateway's answer is an object of an unexpected shape: its
\* action is neither cache_hit nor proceed, or it is proceed without a
\* trace_id.
UnexpectedShape(r) ==
  \/ verdict[r].action = "unknown"
  \/ verdict[r].action = "proceed" /\ verdict[r].trace_id = Undefined

\* C24 - when the gateway's answer has an unexpected shape the call falls
\* back to the direct provider call and dispatches no callback.
C24_UnexpectedShapeNoCallback ==
  \A r \in Reqs : UnexpectedShape(r) => cbs[r] = <<>>

\* C25 - every wrapped call eventually completes when the provider settles
\* its calls, whatever the gateway does: not answering, refusing the
\* connection, or sending the headers and never delivering the body.
C25_EveryCallCompletes ==
  \A r \in Reqs : (pc[r] = "gw_fetch") ~> (outcome[r] # NoOutcome)

\* C30 - token rotation is last-write-wins and harmless: when the response
\* to a cache check carries a session token while another request is under
\* way, the stored token becomes the token of the response handled last, and
\* the other request (its Authorization as sent, its position, its answer)
\* is left as it is; only requests sent later carry the new token.
C30_LastWriteWins ==
  [][\A r \in Reqs :
       (auPc[r] = "fetch" /\ auResponse'[r].kind = "response"
          /\ auResponse'[r].token # Undefined) =>
         /\ jwtToken' = auResponse'[r].token
         /\ \A q \in Reqs \ {r} :
              /\ auRequest'[q] = auRequest[q]
              /\ auResponse'[q] = auResponse[q]
              /\ auPc'[q] = auPc[q]]_vars


\* C31 - the real provider call is invoked at most once per wrapped call on
\* every path: not at all on a cache hit, once on a proceed verdict and once
\* on a gateway failure, also when the provider call raises after a proceed
\* verdict.
C31_ProviderAtMostOnce ==
  \A r \in Reqs :
    /\ Len(provCalls[r]) <= 1
    /\ verdict[r].action = "cache_hit" => provCalls[r] = <<>>
    /\ verdict[r].action = "proceed" => Len(provCalls[r]) = 1
    /\ GatewayFailed(r) => Len(provCalls[r]) = 1


\* C32 - for a non-streaming call, whenever the gateway answered proceed
\* with trace id T and the caller has received a successful provider result
\* (a response object), exactly one callback has been dispatched for the
\* call, keyed by T.
C32_OneCallbackPerProceed ==
  \A r \in Reqs :
    (/\ kind[r] # "stream"
     /\ verdict[r].action = "proceed"
     /\ verdict[r].trace_id # Undefined
     /\ outcome[r].type = "value"
     /\ ~outcome[r].resp.null) =>
      /\ Len(cbs[r]) = 1
      /\ cbs[r][1].trace_id = verdict[r].trace_id


\* The chunks of type t that carry a usage object, in the order captured.
WithUsage(t) == SelectSeq(xtChunks, LAMBDA c : c.type = t /\ c.usage)

\* C33 - the tokens_used of a cache-miss streaming call is the cumulative
\* usage: inputTokens + outputTokens of the finish chunk with totalUsage when
\* one was captured, wherever it sits relative to the finish-step chunks; the
\* usage of a finish-step chunk only when no such finish chunk was captured;
\* 0 when neither exists.
C33_CumulativeUsage ==
  xtTokens # -1 =>
    xtTokens =
      IF WithUsage("finish") # <<>>
        THEN WithUsage("finish")[1].inputTokens + WithUsage("finish")[1].outputTokens
      ELSE IF WithUsage("finish-step") # <<>>
        THEN WithUsage("finish-step")[1].inputTokens + WithUsage("finish-step")[1].outputTokens
      ELSE 0


\* C34 - metadata and session id attached with withMetadata / withSessionId
\* are consumed by exactly one create, the next one started on the wrapper:
\* the step in which a create starts builds its request from the fields as
\* they are and resets them to {} and undefined, so a create that follows
\* with no with-call in between sends {} and no session id; and the request
\* of a create under way is changed by no later call on the wrapper.
C34_ConsumedByNextCreate ==
  [][\A c \in Reqs :
       /\ ("create" \notin flDone[c] /\ "create" \in flDone'[c]) =>
            /\ flRequest'[c].metadata = _metadata
            /\ flRequest'[c].external_session_id = _sessionId
            /\ _metadata' = EmptyMetadata
            /\ _sessionId' = Undefined
       /\ ("create" \in flDone[c] /\ "create" \in flDone'[c]) =>
            flRequest'[c] = flRequest[c]]_vars

\* A create made with no with-call before it has sent {} and no session id,
\* and the other caller's create has consumed the metadata and the session
\* id attached before it.
C34_Witness ==
  \E c \in Reqs : \E d \in Reqs \ {c} :
    /\ flDone[c] = {"create", "withMetadata", "withSessionId"}
    /\ flRequest[c].metadata = MetadataOf(c)
    /\ flRequest[c].external_session_id = SessionIdOf(c)
    /\ flDone[d] = {"create"}
    /\ flRequest[d].metadata = EmptyMetadata
    /\ flRequest[d].external_session_id = Undefined


\* C35 - in the AI SDK middleware the metadata and the session id travel on
\* the params object of the call: under every interleaving of two calls on
\* one wrapped model the gateway request of a call carries the metadata and
\* the sessionId of the providerOptions.observ of that call, and none when
\* the call supplied none.
C35_OwnProviderOptions ==
  \A c \in Reqs :
    vcParams[c].at = "wrapped" =>
      /\ vcRequest[c].metadata = vcConfig[c].metadata
      /\ vcRequest[c].external_session_id = vcConfig[c].sessionId

\* Two calls are under way on the wrapped model, one with metadata and a
\* session id and one without providerOptions.observ, and both requests
\* have been built.
C35_Witness ==
  /\ vcParams[1].at = "wrapped"
  /\ vcParams[2].at = "wrapped"
  /\ vcConfig[1].has
  /\ vcRequest[1].metadata = MetadataOf(1)
  /\ vcRequest[1].external_session_id = SessionIdOf(1)
  /\ ~vcConfig[2].has
  /\ vcRequest[2].metadata = Undefined


\* C36 - a session token stored on an Observ instance is never cleared: the
\* stored token is never the empty string, and once a token is stored every
\* step leaves a non-empty token stored, so that getAuthHeader does not
\* return the static API key again, whatever the requests that follow
\* (checks answered non-2xx, timeouts, fallbacks, answers without the
\* header or with an empty one).
C36_TokenNeverCleared ==
  /\ [](jwtToken # "")
  /\ [][jwtToken # Undefined =>
          /\ jwtToken' \notin {Undefined, ""}
          /\ getAuthHeader' = Bearer(jwtToken')
          /\ getAuthHeader' # Bearer(apiKey)]_vars

\* A cache check sent with the stored token jwt1 was answered non-2xx with
\* an empty x-session-token header, and jwt1 is still stored.
C36_Witness ==
  \E r \in Reqs :
    /\ auWrapper[r] \in SessionWrappers
    /\ auRequest[r].held = "jwt1"
    /\ auResponse[r].kind = "response"
    /\ ~auResponse[r].ok
    /\ auResponse[r].token = ""
    /\ jwtToken = "jwt1"


\* C37 - for a streaming call on a cache miss the callback is dispatched
\* only when the provider's stream has closed normally after all its chunks
\* were forwarded: a request whose provider stream errored, or is still
\* open because the caller stopped reading, or was cancelled by the caller,
\* has no callback; and whenever a callback exists the wrapped call has
\* already returned the stream to its caller.
C37_CallbackOnlyOnNormalClose ==
  \A r \in Reqs :
    kind[r] = "stream" =>
      /\ provStream[r] \in {"open", "errored", "cancelled"} => cbs[r] = <<>>
      /\ cbs[r] # <<>> =>
           /\ provStream[r] = "closed"
           /\ delivered[r] = captured[r]
           /\ outcome[r].type = "stream"
           /\ Len(cbs[r]) = 1

\* One streaming call was cancelled by its caller after a chunk had been
\* forwarded and has no callback; another one closed normally after its
\* chunks and has its callback.
C37_Witness ==
  \E r, q \in Reqs :
    /\ kind[r] = "stream"
    /\ provStream[r] = "cancelled"
    /\ captured[r] # <<>>
    /\ outcome[r].type = "stream"
    /\ cbs[r] = <<>>
    /\ kind[q] = "stream"
    /\ provStream[q] = "closed"
    /\ captured[q] # <<>>
    /\ Len(cbs[q]) = 1


\* C38 - a cache_hit verdict that carries no content still yields a
\* synthesized response whose extracted text is the empty string, never
\* undefined, with zero usage, in every adapter: the Anthropic and the
\* Mistral create, buildGenerateResult, and the text-delta chunk of
\* simulateStream.
C38_NoContentIsEmptyText ==
  (synStage = "built" /\ synContent = Undefined) =>
    IF synKind = "stream"
      THEN /\ (simRead \o simQueue)[1].type = "text-delta"
           /\ (simRead \o simQueue)[1].textDelta = ""
           /\ AllZero((simRead \o simQueue)[2].usage)
      ELSE /\ ExtractedText(synKind, synOut) = ""
           /\ AllZero(synOut.usage)

====
